---- MODULE Spec2Model ----
(***************************************************************************)
(* Model of src/milightrgbw.py: the MiLightRGBW bridge client (command     *)
(* table, build_command, send_command, simple) and the TestMiLightRGBW     *)
(* harness that drives it.                                                 *)
(*                                                                         *)
(* Time is counted in milliseconds.  A Python string that the harness      *)
(* formats and splits is a sequence of tokens: a colon-free word, the      *)
(* token ":" or a decimal digit.  A value handed to build_command is       *)
(* either a Python int or a Python str (the harness passes the piece after *)
(* the colon unconverted); both are records of one shape.                  *)
(***************************************************************************)
EXTENDS Integers, Sequences, FiniteSets, TLC

VARIABLES
    commands,        \* MiLightRGBW.commands: name -> opcode
    suffix,          \* MiLightRGBW.suffix
    bridge_address,  \* self.bridge_address
    bridge_port,     \* self.bridge_port
    struct_masking,  \* TRUE: the interpreter's struct module masks overflow
    wire,            \* datagrams handed to the network, in order
    calls,           \* send_command / simple calls made so far, in order
    ret,             \* what the last call gave back to its caller
    lastOp,          \* the operation of the last call
    slept,           \* ms the last call spent in time.sleep
    attempts,        \* sendto attempts the last call made
    elapsed,         \* ms since the last datagram left (-1: none yet)
    lastGap,         \* ms between the last two datagrams (-1: fewer than two)
    args,            \* the arguments of the last direct build_command call
    hentry,          \* the harness method that was called
    hpc,             \* position in that method's step list
    hstatus          \* "off" | "running" | "done" | "crashed"

vars == <<commands, suffix, bridge_address, bridge_port, struct_masking, wire,
          calls, ret, lastOp, slept, attempts, elapsed, lastGap, args,
          hentry, hpc, hstatus>>

clientState == <<commands, suffix, bridge_address, bridge_port, struct_masking>>
harnessState == <<hentry, hpc, hstatus>>

----------------------------------------------------------------------------
(* Bounds of the model. *)

MaxCalls == 2        \* send_command / simple calls of the free caller
MaxJitter == 1       \* ms a time.sleep may overshoot
MaxIdle == 1         \* ms the caller may wait between two calls
MaxOver == 45        \* how far beyond 255 (and below 0) values are drawn

----------------------------------------------------------------------------
(* Program constants. *)

SuffixByte == 85
BrightnessMin == 2
BrightnessMax == 27
DefaultPort == 8899
PacingMs == 100
ByteLimit == 256
RgbRangeEnd == 256

(* The table with the opcode of all_off entered for rgb as well.           *)
CommandTable_dup ==
    [n \in {"all_off", "all_on", "disco_slower", "disco_faster",
            "group1_on", "group1_off", "group2_on", "group2_off",
            "group3_on", "group3_off", "group4_on", "group4_off",
            "disco", "all_white", "group1_white", "group2_white",
            "group3_white", "group4_white", "brightness", "rgb"} |->
        CASE n \in {"all_off", "rgb"} -> 65
          [] n = "all_on" -> 66
          [] n = "disco_slower" -> 67
          [] n = "disco_faster" -> 68
          [] n = "group1_on" -> 69
          [] n = "group1_off" -> 70
          [] n = "group2_on" -> 71
          [] n = "group2_off" -> 72
          [] n = "group3_on" -> 73
          [] n = "group3_off" -> 74
          [] n = "group4_on" -> 75
          [] n = "group4_off" -> 76
          [] n = "disco" -> 77
          [] n = "all_white" -> 194
          [] n = "group1_white" -> 197
          [] n = "group2_white" -> 199
          [] n = "group3_white" -> 201
          [] n = "group4_white" -> 203
          [] n = "brightness" -> 78]

CommandTable ==
    [n \in {"all_off", "all_on", "disco_slower", "disco_faster",
            "group1_on", "group1_off", "group2_on", "group2_off",
            "group3_on", "group3_off", "group4_on", "group4_off",
            "disco", "all_white", "group1_white", "group2_white",
            "group3_white", "group4_white", "brightness", "rgb"} |->
        CASE n = "all_off" -> 65
          [] n = "all_on" -> 66
          [] n = "disco_slower" -> 67
          [] n = "disco_faster" -> 68
          [] n = "group1_on" -> 69
          [] n = "group1_off" -> 70
          [] n = "group2_on" -> 71
          [] n = "group2_off" -> 72
          [] n = "group3_on" -> 73
          [] n = "group3_off" -> 74
          [] n = "group4_on" -> 75
          [] n = "group4_off" -> 76
          [] n = "disco" -> 77
          [] n = "all_white" -> 194
          [] n = "group1_white" -> 197
          [] n = "group2_white" -> 199
          [] n = "group3_white" -> 201
          [] n = "group4_white" -> 203
          [] n = "brightness" -> 78
          [] n = "rgb" -> 64]

----------------------------------------------------------------------------
(* Python values and results. *)

IntV(n) == [t |-> "int", n |-> n, s |-> <<>>]
StrV(s) == [t |-> "str", n |-> 0, s |-> s]

(* value=0, the default of build_command's and simple's second parameter. *)
DefaultValue == IntV(0)

(* The arguments of a call: given is FALSE when the value is left out.     *)
Args(name, given, value) == [name |-> name, given |-> given, value |-> value]
NoArgs == Args("", FALSE, DefaultValue)
ValueOf(a) == IF a.given THEN a.value ELSE DefaultValue

Returned(b) == [exc |-> "none", bytes |-> b]
Raised(e) == [exc |-> e, bytes |-> <<>>]
NoResult == [exc |-> "nocall", bytes |-> <<>>]

Digits == <<"0", "1", "2", "3", "4", "5", "6", "7", "8", "9">>

DigitVal(c) == (CHOOSE i \in 1..10 : Digits[i] = c) - 1

IsDigit(c) == \E i \in 1..10 : Digits[i] = c

RECURSIVE ParseDigits(_)
ParseDigits(s) ==
    IF s = <<>> THEN 0
    ELSE 10 * ParseDigits(SubSeq(s, 1, Len(s) - 1)) + DigitVal(s[Len(s)])

(* int(value): an int is itself, a str of decimal digits is parsed, any     *)
(* other str raises ValueError.                                            *)
int(value) ==
    IF value.t = "int" THEN [exc |-> "none", n |-> value.n]
    ELSE IF value.s # <<>> /\ \A i \in 1..Len(value.s) : IsDigit(value.s[i])
         THEN [exc |-> "none", n |-> ParseDigits(value.s)]
         ELSE [exc |-> "ValueError", n |-> 0]

(* struct.pack of one "B" field: in range it is the number; out of range   *)
(* the struct module raises struct.error, or, where overflow masking is    *)
(* compiled in, keeps the low eight bits.                                  *)
pack_B(x, masking) ==
    IF x >= 0 /\ x < ByteLimit THEN [exc |-> "none", n |-> x]
    ELSE IF masking THEN [exc |-> "none", n |-> x % ByteLimit]
    ELSE [exc |-> "struct.error", n |-> 0]

(* struct.pack("!BBB", a, b, c) *)
struct_pack_BBB(a, b, c, masking) ==
    LET pa == pack_B(a, masking)
        pb == pack_B(b, masking)
        pc == pack_B(c, masking)
    IN  IF pa.exc # "none" THEN Raised(pa.exc)
        ELSE IF pb.exc # "none" THEN Raised(pb.exc)
        ELSE IF pc.exc # "none" THEN Raised(pc.exc)
        ELSE Returned(<<pa.n, pb.n, pc.n>>)

(* build_command with the value and the suffix in each other's place.      *)
build_command_on_swapped(tbl, sfx, masking, command, value) ==
    IF command \notin DOMAIN tbl THEN Raised("KeyError")
    ELSE LET v == int(value)
         IN  IF v.exc # "none" THEN Raised(v.exc)
             ELSE struct_pack_BBB(tbl[command], sfx, v.n, masking)

(* build_command looking the name up with a default opcode of 0.           *)
build_command_on_get(tbl, sfx, masking, command, value) ==
    LET v == int(value)
        op == IF command \in DOMAIN tbl THEN tbl[command] ELSE 0
    IN  IF v.exc # "none" THEN Raised(v.exc)
        ELSE struct_pack_BBB(op, v.n, sfx, masking)

(* MiLightRGBW.build_command, on a client whose table is tbl and whose     *)
(* suffix is sfx: the arguments of struct.pack are evaluated left to       *)
(* right, so the table lookup fails before int() does.                     *)
build_command_on(tbl, sfx, masking, command, value) ==
    IF command \notin DOMAIN tbl THEN Raised("KeyError")
    ELSE LET v == int(value)
         IN  IF v.exc # "none" THEN Raised(v.exc)
             ELSE struct_pack_BBB(tbl[command], v.n, sfx, masking)

build_command(command, value) ==
    build_command_on(commands, suffix, struct_masking, command, value)

----------------------------------------------------------------------------
(* The client: send_command and simple.  Each gives the state its call     *)
(* leaves behind: the object's fields, the wire, the time the call slept,  *)
(* the sendto attempts it made and what reached the caller.                *)

Self == [commands |-> commands, suffix |-> suffix,
         bridge_address |-> bridge_address, bridge_port |-> bridge_port]

Datagram(cmd) == [data |-> cmd, addr |-> bridge_address, port |-> bridge_port]

(* A call that ended before any sendto. *)
NotSent(e) ==
    [self |-> Self, wire |-> wire, slept |-> 0, attempts |-> 0, exc |-> e,
     elapsed |-> elapsed, lastGap |-> lastGap]

(* send_command sleeping a tenth of the interval.                          *)
send_command_short_sleep(cmd, ok, jitter) ==
    IF ok
    THEN [self |-> Self,
          wire |-> Append(wire, Datagram(cmd)),
          slept |-> (PacingMs \div 10) + jitter,
          attempts |-> 1,
          exc |-> "none",
          elapsed |-> (PacingMs \div 10) + jitter,
          lastGap |-> IF elapsed >= 0 THEN elapsed ELSE lastGap]
    ELSE [self |-> Self, wire |-> wire, slept |-> 0, attempts |-> 1,
          exc |-> "socket.error", elapsed |-> elapsed, lastGap |-> lastGap]

(* send_command with the sleep in a finally clause: taken on failure too.  *)
send_command_sleep_finally(cmd, ok, jitter) ==
    IF ok
    THEN [self |-> Self,
          wire |-> Append(wire, Datagram(cmd)),
          slept |-> PacingMs + jitter,
          attempts |-> 1,
          exc |-> "none",
          elapsed |-> PacingMs + jitter,
          lastGap |-> IF elapsed >= 0 THEN elapsed ELSE lastGap]
    ELSE [self |-> Self, wire |-> wire, slept |-> PacingMs + jitter,
          attempts |-> 1, exc |-> "socket.error",
          elapsed |-> IF elapsed >= 0 THEN elapsed + PacingMs + jitter
                      ELSE elapsed,
          lastGap |-> lastGap]

(* send_command trying a failed sendto a second time.                      *)
send_command_retry(cmd, ok, jitter) ==
    IF ok
    THEN [self |-> Self,
          wire |-> Append(wire, Datagram(cmd)),
          slept |-> PacingMs + jitter,
          attempts |-> 1,
          exc |-> "none",
          elapsed |-> PacingMs + jitter,
          lastGap |-> IF elapsed >= 0 THEN elapsed ELSE lastGap]
    ELSE [self |-> Self, wire |-> wire, slept |-> 0, attempts |-> 2,
          exc |-> "socket.error", elapsed |-> elapsed, lastGap |-> lastGap]

(* MiLightRGBW.send_command.  ok: whether sock.sendto succeeds; jitter: by *)
(* how much time.sleep(0.1) overshoots.  A sendto that raises socket.error *)
(* ends the call at once: the sleep after it is not reached.               *)
send_command(cmd, ok, jitter) ==
    IF ok
    THEN [self |-> Self,
          wire |-> Append(wire, Datagram(cmd)),
          slept |-> PacingMs + jitter,
          attempts |-> 1,
          exc |-> "none",
          elapsed |-> PacingMs + jitter,
          lastGap |-> IF elapsed >= 0 THEN elapsed ELSE lastGap]
    ELSE [self |-> Self, wire |-> wire, slept |-> 0, attempts |-> 1,
          exc |-> "socket.error", elapsed |-> elapsed, lastGap |-> lastGap]

(* simple entering a name the table lacks into the table (setdefault).     *)
simple_setdefault(command, value, ok, jitter) ==
    LET tbl == IF command \in DOMAIN commands THEN commands
               ELSE [n \in DOMAIN commands \cup {command} |->
                        IF n = command THEN 0 ELSE commands[n]]
        b == build_command_on(tbl, suffix, struct_masking, command, value)
        r == send_command(b.bytes, ok, jitter)
    IN  IF b.exc # "none" THEN NotSent(b.exc)
        ELSE [r EXCEPT !.self.commands = tbl]

(* MiLightRGBW.simple: build_command, then send_command of what it built.  *)
simple(command, value, ok, jitter) ==
    LET b == build_command(command, value)
    IN  IF b.exc # "none" THEN NotSent(b.exc)
        ELSE send_command(b.bytes, ok, jitter)

(* What the network did in a call that ended as r. *)
Net(r) == IF r.attempts = 0 THEN "none"
          ELSE IF r.exc = "none" THEN "sent" ELSE "failed"

CallRecord(op, name, value, cmd, r) ==
    [op |-> op, name |-> name, value |-> value, cmd |-> cmd,
     net |-> Net(r), exc |-> r.exc]

(* The state after a send_command or simple call that ended as r. *)
Apply(r, rec) ==
    /\ commands' = r.self.commands
    /\ suffix' = r.self.suffix
    /\ bridge_address' = r.self.bridge_address
    /\ bridge_port' = r.self.bridge_port
    /\ wire' = r.wire
    /\ slept' = r.slept
    /\ attempts' = r.attempts
    /\ elapsed' = r.elapsed
    /\ lastGap' = r.lastGap
    /\ ret' = IF r.exc = "none" THEN Returned(<<>>) ELSE Raised(r.exc)
    /\ lastOp' = rec.op
    /\ calls' = Append(calls, rec)
    /\ UNCHANGED struct_masking

----------------------------------------------------------------------------
(* The free caller: any sequence of calls on one client instance.          *)

(* Endpoints a client is constructed with: the defaults of __init__, and   *)
(* the address the script's main block passes.                             *)
Endpoints == { <<"255.255.255.255", DefaultPort>>, <<"10.0.88.50", DefaultPort>> }

(* Argument pairs the free caller passes to build_command and simple.      *)
CallerInputs ==
    { Args("all_on", FALSE, DefaultValue),
      Args("rgb", TRUE, IntV(160)),
      Args("brightness", TRUE, IntV(BrightnessMax)),
      Args("rgb", TRUE, IntV(RgbRangeEnd)),
      Args("unknown_command_xyz", FALSE, DefaultValue) }

(* Packets the free caller passes to send_command.                         *)
CallerPackets == { <<CommandTable["all_off"], 0, SuffixByte>> }

Jitters == 0..MaxJitter

Init ==
    /\ commands = CommandTable
    /\ suffix = SuffixByte
    /\ \E e \in Endpoints : bridge_address = e[1] /\ bridge_port = e[2]
    /\ struct_masking \in BOOLEAN
    /\ wire = <<>>
    /\ calls = <<>>
    /\ ret = NoResult
    /\ lastOp = "none"
    /\ slept = 0
    /\ attempts = 0
    /\ elapsed = -1
    /\ lastGap = -1
    /\ args = NoArgs
    /\ hentry = "none"
    /\ hpc = 0
    /\ hstatus = "off"

BuildCommand(a) ==
    /\ hstatus = "off"
    /\ args' = a
    /\ ret' = build_command(a.name, ValueOf(a))
    /\ lastOp' = "build_command"
    /\ slept' = 0
    /\ attempts' = 0
    /\ UNCHANGED <<clientState, wire, calls, elapsed, lastGap, harnessState>>

SendCommand(cmd, ok, jitter) ==
    /\ hstatus = "off"
    /\ Len(calls) < MaxCalls
    /\ LET r == send_command(cmd, ok, jitter)
       IN  Apply(r, CallRecord("send_command", "", DefaultValue, cmd, r))
    /\ UNCHANGED <<args, harnessState>>

Simple(a, ok, jitter) ==
    /\ hstatus = "off"
    /\ Len(calls) < MaxCalls
    /\ LET r == simple(a.name, ValueOf(a), ok, jitter)
       IN  Apply(r, CallRecord("simple", a.name, ValueOf(a), <<>>, r))
    /\ UNCHANGED <<args, harnessState>>

(* The caller does something else for d ms between two calls.              *)
Idle(d) ==
    /\ hstatus = "off"
    /\ elapsed >= 0
    /\ elapsed + d <= PacingMs + MaxJitter + MaxIdle
    /\ elapsed' = elapsed + d
    /\ UNCHANGED <<clientState, wire, calls, ret, lastOp, slept, attempts,
                   lastGap, args, harnessState>>

DoBuildCommand == \E a \in CallerInputs : BuildCommand(a)
DoSendCommand ==
    \E cmd \in CallerPackets, ok \in BOOLEAN, j \in Jitters :
        SendCommand(cmd, ok, j)
DoSimple ==
    \E a \in CallerInputs, ok \in BOOLEAN, j \in Jitters :
        Simple(a, ok, j)
DoIdle == \E d \in 1..MaxIdle : Idle(d)

Next == DoBuildCommand \/ DoSendCommand \/ DoSimple \/ DoIdle

Spec == Init /\ [][Next]_vars

----------------------------------------------------------------------------
(* build_command as a pure function: one call, its arguments drawn from    *)
(* every table name and two names the table lacks, and from the integers   *)
(* around the byte range, the value left out, and three strings.           *)

AllNames == DOMAIN CommandTable \cup {"unknown_command_xyz", ""}

IntValues == { IntV(n) : n \in (0 - MaxOver)..(ByteLimit - 1 + MaxOver) }
StrValues == { StrV(<<"2", "7">>), StrV(<<>>), StrV(<<"x">>) }

BuildInputs ==
    { Args(n, TRUE, v) : n \in AllNames, v \in IntValues \cup StrValues }
    \cup { Args(n, FALSE, DefaultValue) : n \in AllNames }

InitBuild ==
    /\ commands = CommandTable
    /\ suffix = SuffixByte
    /\ \E e \in Endpoints : bridge_address = e[1] /\ bridge_port = e[2]
    /\ struct_masking \in BOOLEAN
    /\ wire = <<>>
    /\ calls = <<>>
    /\ ret = NoResult
    /\ lastOp = "none"
    /\ slept = 0
    /\ attempts = 0
    /\ elapsed = -1
    /\ lastGap = -1
    /\ args \in BuildInputs
    /\ hentry = "none"
    /\ hpc = 0
    /\ hstatus = "pure"

BuildArgs ==
    /\ hstatus = "pure"
    /\ lastOp = "none"
    /\ ret' = build_command(args.name, ValueOf(args))
    /\ lastOp' = "build_command"
    /\ UNCHANGED <<clientState, wire, calls, slept, attempts, elapsed, lastGap,
                   args, harnessState>>

NextBuild == BuildArgs

SpecBuild == InitBuild /\ [][NextBuild]_vars

----------------------------------------------------------------------------
(* Claims about build_command, under SpecBuild.                            *)

Built == lastOp = "build_command"
ArgInt == ValueOf(args).t = "int"
ArgN == ValueOf(args).n
InByteRange(n) == n >= 0 /\ n <= 255

(* C1: for every table name and every integer value in 0..255,             *)
(* build_command returns exactly three bytes: the table's opcode for the   *)
(* name, the value mod 256, and 85; with the value left out the second     *)
(* byte is 0.                                                              *)
C1_BuildLayout ==
    (Built /\ args.name \in DOMAIN CommandTable /\ ArgInt /\ InByteRange(ArgN))
    => /\ ret.exc = "none"
       /\ Len(ret.bytes) = 3
       /\ ret.bytes[1] = CommandTable[args.name]
       /\ ret.bytes[2] = ArgN % 256
       /\ ret.bytes[3] = 85
       /\ (~args.given => ret.bytes[2] = 0)

C1_Witness ==
    /\ Built /\ args = Args("brightness", TRUE, IntV(27))
    /\ ret.bytes = <<78, 27, 85>>

(* C5: for a table name and an integer value outside 0..255,               *)
(* build_command raises nothing and returns the three bytes opcode,        *)
(* value mod 256, 85.                                                      *)
C5_TruncatesOutOfRange ==
    (Built /\ args.name \in DOMAIN CommandTable /\ ArgInt /\ ~InByteRange(ArgN))
    => /\ ret.exc = "none"
       /\ ret.bytes = <<CommandTable[args.name], ArgN % 256, 85>>

(* Decoding a packet, and the names the table maps to an opcode.           *)
Decode(b) == [opcode |-> b[1], value |-> b[2], terminator |-> b[3]]
NamesOf(op) == { n \in DOMAIN commands : commands[n] = op }

(* C8: for every table name and every value in 0..255, the built packet    *)
(* decodes to an opcode that exactly one table name has, that name is the  *)
(* one encoded, and re-encoding the decoded name and value gives the same  *)
(* three bytes.                                                            *)
C8_RoundTrip ==
    (Built /\ args.name \in DOMAIN CommandTable /\ ArgInt /\ InByteRange(ArgN))
    => LET d == Decode(ret.bytes)
       IN  /\ Cardinality(DOMAIN commands) = 20
           /\ \A m, n \in DOMAIN commands :
                 commands[m] = commands[n] => m = n
           /\ NamesOf(d.opcode) = {args.name}
           /\ d.terminator = suffix
           /\ \A n \in NamesOf(d.opcode) :
                 build_command(n, IntV(d.value)) = Returned(ret.bytes)

C8_Witness ==
    /\ Built /\ args = Args("rgb", TRUE, IntV(160))
    /\ Decode(ret.bytes) = [opcode |-> 64, value |-> 160, terminator |-> 85]

----------------------------------------------------------------------------
(* Claims about send_command and simple, under Spec.                       *)

LastCall == calls[Len(calls)]
Called == Len(calls) > 0
IsSimple(c) == c.op = "simple"

(* C2: N calls of simple with table names on a transport that does not     *)
(* fail put exactly N datagrams on the wire, to the configured endpoint,   *)
(* the i-th datagram being build_command of the i-th call's arguments, in  *)
(* the order of the calls.                                                 *)
C2_OneDatagramPerCall ==
    (\A i \in 1..Len(calls) :
        /\ IsSimple(calls[i])
        /\ calls[i].name \in DOMAIN CommandTable
        /\ calls[i].net # "failed")
    => /\ Len(wire) = Len(calls)
       /\ \A i \in 1..Len(calls) :
             /\ i <= Len(wire)
             /\ Returned(wire[i].data)
                  = build_command(calls[i].name, calls[i].value)
             /\ wire[i].addr = bridge_address
             /\ wire[i].port = bridge_port

(* C3: two consecutive datagrams are at least 100 ms apart, and whenever   *)
(* the caller has control after a datagram, at least 100 ms have passed    *)
(* since it left: the call that sent it returned only after the delay.     *)
C3_Pacing ==
    /\ (Len(wire) >= 2 => lastGap >= 100)
    /\ (Len(wire) >= 1 => elapsed >= 100)

C3_Witness == Len(wire) >= 2 /\ lastGap >= 100

(* C4: build_command and simple called with a name the table lacks raise   *)
(* KeyError (the UnknownCommand condition) to the caller; simple then      *)
(* makes no sendto attempt, puts nothing on the wire and takes no delay.   *)
C4_UnknownCommand ==
    [][ /\ (/\ lastOp' = "build_command"
            /\ args'.name \notin DOMAIN CommandTable)
           => ret'.exc = "KeyError"
        /\ (/\ Len(calls') = Len(calls) + 1
            /\ IsSimple(calls'[Len(calls')])
            /\ calls'[Len(calls')].name \notin DOMAIN CommandTable)
           => /\ ret'.exc = "KeyError"
              /\ calls'[Len(calls')].exc = "KeyError"
              /\ attempts' = 0
              /\ slept' = 0
              /\ wire' = wire
              /\ elapsed' = elapsed
              /\ lastGap' = lastGap ]_vars

C4_Witness ==
    /\ Called /\ lastOp = "simple"
    /\ LastCall.name = "unknown_command_xyz"
    /\ ret.exc = "KeyError"
    /\ Len(wire) = 1

(* C6 as stated: every send_command or simple call that reached sendto     *)
(* sleeps at least 100 ms before control returns, when sendto fails too.   *)
C6_SleepsWhateverTheOutcome ==
    (Called /\ lastOp \in {"send_command", "simple"} /\ LastCall.net # "none")
    => slept >= 100

(* C6 as amended: a call whose sendto succeeds sleeps at least 100 ms      *)
(* before it returns; a call whose sendto fails raises socket.error with   *)
(* no sleep at all.                                                        *)
C6_SleepsAfterSuccessOnly ==
    (Called /\ lastOp \in {"send_command", "simple"})
    => /\ (LastCall.net = "sent" => slept >= 100 /\ ret.exc = "none")
       /\ (LastCall.net = "failed" => slept = 0 /\ ret.exc = "socket.error")

C6_Witness ==
    /\ Called /\ lastOp = "send_command"
    /\ LastCall.net = "failed" /\ slept = 0
    /\ Len(wire) = 1

(* C7: a failed sendto reaches the caller as socket.error, an error no     *)
(* other failure of the call raises, and is not retried: a call makes at   *)
(* most one sendto attempt, and a failed attempt puts nothing on the wire. *)
C7_TransportErrorNoRetry ==
    /\ attempts <= 1
    /\ (Called /\ lastOp \in {"send_command", "simple"})
       => /\ (LastCall.net = "failed"
                => ret.exc = "socket.error" /\ attempts = 1)
          /\ (ret.exc = "socket.error" <=> LastCall.net = "failed")
    /\ Len(wire) = Cardinality({ i \in 1..Len(calls) : calls[i].net = "sent" })

C7_Witness ==
    /\ Called /\ lastOp = "simple"
    /\ LastCall.net = "failed" /\ ret.exc = "socket.error" /\ attempts = 1

(* C9: no call changes the command table, the suffix, the bridge address   *)
(* or the bridge port; build_command puts nothing on the wire and changes  *)
(* neither the call history nor the time since the last datagram; a        *)
(* send_command or simple call adds at most one datagram to the wire and   *)
(* removes none.                                                           *)
C9_Frame ==
    [][ /\ commands' = commands
        /\ suffix' = suffix
        /\ bridge_address' = bridge_address
        /\ bridge_port' = bridge_port
        /\ (lastOp' = "build_command")
           => /\ wire' = wire
              /\ calls' = calls
              /\ lastGap' = lastGap
              /\ (elapsed' # elapsed => lastOp = "build_command")
        /\ (Len(calls') = Len(calls) + 1)
           => \/ wire' = wire
              \/ /\ Len(wire') = Len(wire) + 1
                 /\ SubSeq(wire', 1, Len(wire)) = wire ]_vars

C9_Witness ==
    /\ Called /\ lastOp = "simple" /\ LastCall.exc = "KeyError"
    /\ Len(wire) = 1
    /\ commands = CommandTable /\ suffix = SuffixByte

----------------------------------------------------------------------------
(* The harness TestMiLightRGBW.  A method is the list of its steps: a      *)
(* step hands one command string to the bridge or sleeps.                  *)

RECURSIVE PyStr(_)
(* "%s" % n for an int n >= 0: its decimal digits.                         *)
PyStr(n) ==
    IF n < 10 THEN <<Digits[n + 1]>>
    ELSE PyStr(n \div 10) \o <<Digits[(n % 10) + 1]>>

(* "word:%s" % n *)
Fmt(word, n) == <<word, ":">> \o PyStr(n)

RECURSIVE split(_)
(* command.split(':'): the pieces between the colons, in order.            *)
split(str) ==
    IF \A i \in 1..Len(str) : str[i] # ":" THEN <<str>>
    ELSE LET k == CHOOSE i \in 1..Len(str) :
                      /\ str[i] = ":"
                      /\ \A j \in 1..(i - 1) : str[j] # ":"
         IN  <<SubSeq(str, 1, k - 1)>> \o split(SubSeq(str, k + 1, Len(str)))

(* The command name a piece is: a piece of several tokens, or of none, is  *)
(* a string no table holds.                                                *)
Word(piece) == IF Len(piece) = 1 THEN piece[1] ELSE ""

TestStep(str) == [k |-> "test", s |-> str, ms |-> 0]
SleepStep(ms) == [k |-> "sleep", s |-> <<>>, ms |-> ms]

(* TestMiLightRGBW.test on a list: one step per command, in order.         *)
test(cmds) == [i \in 1..Len(cmds) |-> TestStep(cmds[i])]
(* TestMiLightRGBW.test on one string, which it wraps into a list.         *)
test1(str) == test(<<str>>)

(* self.brightness_max of the harness *)
brightness_max == Fmt("brightness", BrightnessMax)

(* sane without its first command.                                         *)
sane_without_all_on ==
    test(<<Fmt("rgb", 160), brightness_max>>)
    \o test(<<<<"all_white">>, brightness_max>>)
    \o <<SleepStep(2000)>>

sane ==
    test1(<<"all_on">>)
    \o test(<<Fmt("rgb", 160), brightness_max>>)
    \o test(<<<<"all_white">>, brightness_max>>)
    \o <<SleepStep(2000)>>

test_simple ==
    sane
    \o test1(<<"all_off">>) \o <<SleepStep(1000)>>
    \o test1(<<"all_on">>) \o <<SleepStep(1000)>>
    \o test1(<<"disco">>) \o <<SleepStep(10000)>>

(* range(brightness_min, brightness_max + 1) *)
brightness_range ==
    [i \in 1..(BrightnessMax + 1 - BrightnessMin) |-> BrightnessMin + i - 1]

Reverse(seq) == [i \in 1..Len(seq) |-> seq[Len(seq) + 1 - i]]

(* for i in r: self.test('brightness:%s' % i) *)
BrightnessSweep(r) == [i \in 1..Len(r) |-> TestStep(Fmt("brightness", r[i]))]

test_white_brightness ==
    sane
    \o test1(Fmt("brightness", BrightnessMin)) \o <<SleepStep(2000)>>
    \o BrightnessSweep(brightness_range)
    \o BrightnessSweep(Reverse(brightness_range))
    \o <<SleepStep(2000)>>

test_rgb_brightness ==
    sane
    \o test1(Fmt("rgb", 160))
    \o test1(Fmt("brightness", BrightnessMin)) \o <<SleepStep(2000)>>
    \o BrightnessSweep(brightness_range)
    \o BrightnessSweep(Reverse(brightness_range))
    \o <<SleepStep(2000)>>

(* range(0, 256) *)
rgb_range == [i \in 1..RgbRangeEnd |-> i - 1]

(* for i in rgb_range: self.test('rgb:%s' % i); time.sleep(0.5) *)
RgbSweep ==
    [i \in 1..(2 * Len(rgb_range)) |->
        IF i % 2 = 1 THEN TestStep(Fmt("rgb", rgb_range[(i + 1) \div 2]))
        ELSE SleepStep(500)]

test_rgb ==
    sane
    \o test1(<<"all_on">>)
    \o test1(Fmt("rgb", rgb_range[1])) \o <<SleepStep(2000)>>
    \o RgbSweep
    \o <<SleepStep(2000)>>

test_all ==
    test_simple \o test_white_brightness \o test_rgb_brightness
    \o test_rgb \o sane

Entries == {"sane", "test_simple", "test_white_brightness",
            "test_rgb_brightness", "test_rgb", "test_all"}

Program ==
    [e \in Entries |->
        CASE e = "sane" -> sane
          [] e = "test_simple" -> test_simple
          [] e = "test_white_brightness" -> test_white_brightness
          [] e = "test_rgb_brightness" -> test_rgb_brightness
          [] e = "test_rgb" -> test_rgb
          [] e = "test_all" -> test_all]

InitHarness ==
    /\ commands = CommandTable
    /\ suffix = SuffixByte
    /\ \E e \in Endpoints : bridge_address = e[1] /\ bridge_port = e[2]
    /\ struct_masking \in BOOLEAN
    /\ wire = <<>>
    /\ calls = <<>>
    /\ ret = NoResult
    /\ lastOp = "none"
    /\ slept = 0
    /\ attempts = 0
    /\ elapsed = -1
    /\ lastGap = -1
    /\ args = NoArgs
    /\ hentry \in Entries
    /\ hpc = 1
    /\ hstatus = "running"

(* The status once the step at hpc is over: an exception of simple ends    *)
(* the run, the last step ends the method.                                 *)
AfterStep(exc) ==
    IF exc # "none" THEN "crashed"
    ELSE IF hpc = Len(Program[hentry]) THEN "done" ELSE "running"

(* One pass of the loop of TestMiLightRGBW.test: split the command at the  *)
(* colon; with a second piece call simple(bits[0], bits[1]), without one   *)
(* simple(command).                                                        *)
HarnessTest(ok, jitter) ==
    /\ hstatus = "running"
    /\ Program[hentry][hpc].k = "test"
    /\ LET command == Program[hentry][hpc].s
           bits == split(command)
           name == IF Len(bits) > 1 THEN Word(bits[1]) ELSE Word(command)
           value == IF Len(bits) > 1 THEN StrV(bits[2]) ELSE DefaultValue
           r == simple(name, value, ok, jitter)
       IN  /\ Apply(r, CallRecord("simple", name, value, <<>>, r))
           /\ hstatus' = AfterStep(r.exc)
           /\ hpc' = IF r.exc = "none" THEN hpc + 1 ELSE hpc
    /\ UNCHANGED <<args, hentry>>

(* A time.sleep of the harness between two commands.                       *)
HarnessSleep ==
    /\ hstatus = "running"
    /\ Program[hentry][hpc].k = "sleep"
    /\ elapsed' = IF elapsed >= 0 THEN elapsed + Program[hentry][hpc].ms
                  ELSE elapsed
    /\ hstatus' = AfterStep("none")
    /\ hpc' = hpc + 1
    /\ UNCHANGED <<clientState, wire, calls, ret, lastOp, slept, attempts,
                   lastGap, args, hentry>>

DoHarnessTest == \E ok \in BOOLEAN, j \in Jitters : HarnessTest(ok, j)

NextHarness == DoHarnessTest \/ HarnessSleep

SpecHarness == InitHarness /\ [][NextHarness]_vars

----------------------------------------------------------------------------
(* Claims about the harness, under SpecHarness.                            *)

NeedsZone == {"rgb", "brightness", "all_white"}

(* The last all_on or all_off among the first n commands is an all_on.     *)
ZoneOn(cs, n) ==
    LET sw == { j \in 1..n : cs[j].name \in {"all_on", "all_off"} }
    IN  /\ sw # {}
        /\ cs[CHOOSE j \in sw : \A i \in sw : i <= j].name = "all_on"

(* C10: in every harness method, each rgb, brightness or all_white command *)
(* comes after an all_on with no all_off between the two; a "name:value"   *)
(* string is sent as simple(name, value), the value being the digits after *)
(* the colon, and a plain string as simple(name) with the default value.   *)
C10_HarnessOrder ==
    [][ (Len(calls') = Len(calls) + 1)
        => LET c == calls'[Len(calls')]
               str == Program[hentry][hpc].s
           IN  /\ IsSimple(c)
               /\ c.name \in DOMAIN CommandTable
               /\ (c.name \in NeedsZone => ZoneOn(calls, Len(calls)))
               /\ \/ str = <<c.name>> /\ c.value = IntV(0)
                  \/ /\ c.value.t = "str"
                     /\ str = <<c.name, ":">> \o c.value.s
                     /\ int(c.value).exc = "none"
                     /\ PyStr(int(c.value).n) = c.value.s
               /\ (c.net = "sent"
                    => wire'[Len(wire')].data
                         = <<CommandTable[c.name], int(c.value).n, 85>>) ]_vars

C10_Witness ==
    /\ hentry = "test_all" /\ hstatus = "done"
    /\ Len(wire) = Len(calls)
    /\ Len(wire) > 300
    /\ wire[Len(wire)].data = <<78, 27, 85>>

====
